---- MODULE Spec2Model ----
(***************************************************************************)
(* The tutorial pipelines of the notebooks, as a state machine.            *)
(*                                                                         *)
(*   imaging notebooks : Session -> Scan -> AverageFrame,                  *)
(*                       AverageFrame * SegmentationParam -> Segmentation  *)
(*                       (part Roi), Segmentation -> Fluorescence (part    *)
(*                       Trace)                                            *)
(*   ephys notebook    : Session -> Neuron                                 *)
(*                                                                         *)
(* A table is a set of rows, a row is a record (a function from attribute  *)
(* names to values).  populate/make belong to the DataJoint library; they  *)
(* are modelled as the notebooks describe and use them.  The make methods  *)
(* are the ones the notebooks define.  A notebook runs one cell at a time, *)
(* so the only thing that happens while a populate runs is that populate.  *)
(*                                                                         *)
(* Data files are assumed to exist for every Session / Scan row, as the    *)
(* notebooks assume (the fixed naming convention).  An image is a 1-D      *)
(* strip of uniform patches: "sizes" gives the number of pixels of each    *)
(* patch, a frame gives the intensity of each patch.  Every example image  *)
(* has a patch darker than every threshold (a background).                 *)
(***************************************************************************)
EXTENDS Integers, Sequences, FiniteSets, TLC

VARIABLES
    notebook,           \* which notebook's kernel is running
    Session,            \* Manual table (pipeline.mouse)
    npy,                \* the .npy files under data_dir: file name -> array
    Scan,               \* Manual table
    avgClass,           \* which definition of class AverageFrame is in force
    AverageFrame,       \* Imported table
    nrnClass,           \* which definition of class Neuron is in force
    Neuron,             \* Imported table
    SegmentationParam,  \* Lookup table
    Segmentation,       \* Computed table (master)
    Roi,                \* Segmentation.Roi (part)
    Fluorescence,       \* Imported table (master)
    Trace,              \* Fluorescence.Trace (part)
    pc,                 \* "idle", or where the running populate() is
    popTable,           \* the table populate() was called on
    todo,               \* keys populate() still has to call make for
    keysAtStart,        \* key_source - target when populate() was called
    calls,              \* the keys make was called with, in call order
    before,             \* the populated table, its part, and whether it was fresh,
                        \* when populate() was called
    frame,              \* the locals of the make call in progress
    fresh               \* tables populated with no change to their parents since

tables == <<Session, npy, Scan, AverageFrame, Neuron, SegmentationParam,
            Segmentation, Roi, Fluorescence, Trace>>
classes == <<avgClass, nrnClass>>
popVars == <<pc, popTable, todo, keysAtStart, calls, before, frame>>
vars == <<notebook, tables, classes, popVars, fresh>>

----------------------------------------------------------------------------
(* Bounds of the model *)

MaxScans == 2
MaxSessions == 3
MaxNeurons == 2

----------------------------------------------------------------------------
(* Rows and keys *)

PKSession == {"mouse_id", "session_date"}
PKScan == {"mouse_id", "session_date", "scan_idx"}
PKParam == {"seg_param_id"}
PKSegmentation == PKScan \cup PKParam
PKRoi == PKSegmentation \cup {"roi_idx"}
PKNeuron == PKSession \cup {"neuron_id"}

\* proj(): the row restricted to the attributes attrs
Proj(row, attrs) == [a \in attrs |-> row[a]]

\* dict(**key, ...): the key extended with further attributes
Extend(key, more) == [a \in DOMAIN key \cup DOMAIN more |->
                        IF a \in DOMAIN more THEN more[a] ELSE key[a]]

\* a row agrees with a key on every attribute they share
Matches(row, key) ==
    \A a \in DOMAIN key \cap DOMAIN row : row[a] = key[a]

\* T & key
Restrict(T, key) == {r \in T : Matches(r, key)}

\* (T & key).fetch1(attr): the restriction holds exactly one row
Fetch1(T, key, attr) == (CHOOSE r \in Restrict(T, key) : TRUE)[attr]

\* (mutant) Parent - Child taken as the difference of two sets of rows
AntijoinAsDifference(P, C) == P \ C

\* Parent - Child: the parent rows with no matching child row
Antijoin(P, C) == {p \in P : \A c \in C : ~Matches(c, p)}

\* (mutant) the whole rows of the table stand for their keys
KeysWholeRows(T, pk) == T

\* the keys (primary key attributes only) of the rows of a table
Keys(T, pk) == {Proj(r, pk) : r \in T}

\* (mutant) the rows of the two tables are paired off instead of combined
JoinKeysPaired(A, pkA, B, pkB) ==
    IF A = {} \/ B = {} THEN {}
    ELSE LET a0 == CHOOSE a \in A : TRUE
             b0 == CHOOSE b \in B : TRUE
         IN  {Extend(Proj(a, pkA), Proj(b0, pkB)) : a \in A}
               \cup {Extend(Proj(a0, pkA), Proj(b, pkB)) : b \in B}

\* the join of the keys of two tables without a shared attribute
JoinKeys(A, pkA, B, pkB) ==
    {Extend(Proj(a, pkA), Proj(b, pkB)) : a \in A, b \in B}

----------------------------------------------------------------------------
(* The contents the notebooks work with *)

MouseIds == {0, 100}
SessionDates == {"2017-05-15", "2017-05-25", "2017-06-01"}

SessionRow(m, d) ==
    [mouse_id |-> m, session_date |-> d, experiment_setup |-> 1,
     experimenter |-> "Jacob Reimer", data_path |-> "data"]

\* every row Session.insert1 may be given
SessionRows == {SessionRow(m, d) : m \in MouseIds, d \in SessionDates}

\* the sessions pipeline.mouse has filled in
InitialSessions == {SessionRow(0, "2017-05-15"), SessionRow(100, "2017-05-25")}

\* the rows the notebook inserts into Scan
ScanRows ==
    {[mouse_id |-> 0, session_date |-> "2017-05-15", scan_idx |-> 1, depth |-> 150,
      wavelength |-> 920, laser_power |-> 26, fps |-> 15,
      file_name |-> "example_scan_01.tif"],
     [mouse_id |-> 0, session_date |-> "2017-05-15", scan_idx |-> 2, depth |-> 200,
      wavelength |-> 920, laser_power |-> 24, fps |-> 15,
      file_name |-> "example_scan_02.tif"],
     [mouse_id |-> 100, session_date |-> "2017-05-25", scan_idx |-> 1, depth |-> 150,
      wavelength |-> 920, laser_power |-> 25, fps |-> 15,
      file_name |-> "example_scan_03.tif"]}

\* the rows the notebook inserts into SegmentationParam
ParamRows ==
    {[seg_param_id |-> 0, threshold |-> 50, size_cutoff |-> 50],
     [seg_param_id |-> 1, threshold |-> 60, size_cutoff |-> 50]}

\* os.path.join(data_path, file_name)
PathJoin(dir, name) == dir \o "/" \o name

\* io.imread: the tif files of the data folder (sizes: pixels per patch,
\* frames: the intensity of each patch in each frame)
ImRead(path) ==
    CASE path = "data/example_scan_01.tif" ->
           [sizes |-> <<80, 60, 100, 55, 30>>,
            frames |-> << <<20, 70, 30, 58, 66>>, <<24, 74, 30, 54, 62>> >>]
      [] path = "data/example_scan_02.tif" ->
           [sizes |-> <<100, 40, 90, 70>>,
            frames |-> << <<28, 66, 18, 60>>, <<32, 64, 22, 62>> >>]
      [] path = "data/example_scan_03.tif" ->
           [sizes |-> <<120, 45>>,
            frames |-> << <<8, 50>>, <<12, 60>> >>]

\* str(int) for the mouse ids of the model
DigitStr(d) == CASE d = 0 -> "0" [] d = 1 -> "1" [] d = 2 -> "2" [] d = 3 -> "3"
                 [] d = 4 -> "4" [] d = 5 -> "5" [] d = 6 -> "6" [] d = 7 -> "7"
                 [] d = 8 -> "8" [] d = 9 -> "9"

RECURSIVE IntToStr(_)
IntToStr(n) == IF n < 10 THEN DigitStr(n)
               ELSE IntToStr(n \div 10) \o DigitStr(n % 10)

data_dir == "data"

\* (mutant) the file name is built from the session date alone
DataFileByDate(key) ==
    data_dir \o "/data_" \o key.session_date \o ".npy"

\* '{data_dir}/data_{mouse_id}_{session_date}.npy'.format(**key, data_dir=data_dir)
DataFile(key) ==
    data_dir \o "/data_" \o IntToStr(key.mouse_id) \o "_" \o key.session_date \o ".npy"

\* the recording of a session with n neurons: row idx (from 0) is the activity
\* of neuron idx of that session, a value no other recording holds
Recording(key, n) ==
    [i \in 1..n |-> [mouse_id |-> key.mouse_id, session_date |-> key.session_date,
                     neuron |-> i - 1]]

----------------------------------------------------------------------------
(* The numerical routines the make methods call *)

RECURSIVE SumSeq(_)
SumSeq(s) == IF s = <<>> THEN 0 ELSE Head(s) + SumSeq(Tail(s))

\* the ascending sequence of the elements of a finite set of integers
RECURSIVE SortedSeq(_)
SortedSeq(S) ==
    IF S = {} THEN <<>>
    ELSE LET m == CHOOSE x \in S : \A y \in S : x <= y
         IN  <<m>> \o SortedSeq(S \ {m})

\* np.mean(im, axis=0)
MeanFrame(im) ==
    LET n == Len(im.frames)
    IN  [sizes |-> im.sizes,
         val |-> [i \in 1..Len(im.sizes) |->
                    SumSeq([f \in 1..n |-> im.frames[f][i]]) \div n]]

\* avg_image > threshold
Threshold(img, threshold) == [i \in 1..Len(img.val) |-> img.val[i] > threshold]

\* ndimage.label: every maximal run of set patches gets the next number, 0 elsewhere
Label(mask) ==
    LET IsStart(i) == mask[i] /\ (i = 1 \/ ~mask[i - 1])
    IN  [i \in 1..Len(mask) |->
            IF mask[i] THEN Cardinality({j \in 1..i : IsStart(j)}) ELSE 0]

\* np.unique
Unique(label_im) == SortedSeq({label_im[i] : i \in 1..Len(label_im)})

\* np.sum(label_im == i), in pixels
SizeOf(label_im, sizes, l) ==
    SumSeq([i \in 1..Len(label_im) |-> IF label_im[i] = l THEN sizes[i] ELSE 0])

\* label_im[pixel_to_remove] = 0 with pixel_to_remove = small_size_filter[label_im]
RemoveSmall(label_im, sizes, size_cutoff) ==
    LET u == Unique(label_im)
        blob_sizes == [j \in 1..Len(u) |-> SizeOf(label_im, sizes, u[j])]
        small_size_filter == [j \in 1..Len(u) |-> blob_sizes[j] < size_cutoff]
    IN  [i \in 1..Len(label_im) |->
            IF small_size_filter[label_im[i] + 1] THEN 0 ELSE label_im[i]]

\* label_im == i
MaskOf(label_im, l) == {i \in 1..Len(label_im) : label_im[i] = l}

\* the segmentation of Segmentation.make: the filtered label image
Segment(avg_image, threshold, size_cutoff) ==
    RemoveSmall(Label(Threshold(avg_image, threshold)), avg_image.sizes, size_cutoff)

\* np.unique(label_im)[1:]
RoiLabels(label_im) == Tail(Unique(label_im))

\* np.mean(im_reshaped[:, mask_reshaped], axis=1): per frame <<sum, pixels>>
TraceOf(im, mask) ==
    [f \in 1..Len(im.frames) |->
        <<SumSeq([i \in 1..Len(im.sizes) |->
                    IF i \in mask THEN im.sizes[i] * im.frames[f][i] ELSE 0]),
          SumSeq([i \in 1..Len(im.sizes) |-> IF i \in mask THEN im.sizes[i] ELSE 0])>>]

\* np.array(range(n))/fps: per frame <<numerator, denominator>>
TimeOf(n, fps) == [f \in 1..n |-> <<f - 1, fps>>]

----------------------------------------------------------------------------
(* The schema: tiers, dependencies, class definitions *)

ImagingTables == {"AverageFrame", "Segmentation", "Fluorescence"}
EphysTables == {"Neuron"}
AutoPopulated == ImagingTables \cup EphysTables

\* the definitions a class goes through in its notebook:
\* without make, make printing the key, make importing the data
ClassVersions == <<"nomake", "print", "import">>

ClassOf(T) == CASE T = "AverageFrame" -> avgClass
                [] T = "Neuron" -> nrnClass
                [] OTHER -> "import"

\* the auto-populated tables that depend on table X (-> X in their definition)
Children(X) == CASE X = "Session" -> {"Neuron"}
                 [] X = "Scan" -> {"AverageFrame"}
                 [] X = "AverageFrame" -> {"Segmentation"}
                 [] X = "SegmentationParam" -> {"Segmentation"}
                 [] X = "Segmentation" -> {"Fluorescence"}
                 [] OTHER -> {}

Target(T) == CASE T = "AverageFrame" -> AverageFrame
               [] T = "Neuron" -> Neuron
               [] T = "Segmentation" -> Segmentation
               [] T = "Fluorescence" -> Fluorescence

PartOf(T) == CASE T = "Segmentation" -> Roi
               [] T = "Fluorescence" -> Trace
               [] OTHER -> {}

NoFrame == [key |-> <<>>, inserts |-> <<>>]
NoSnapshot == [master |-> {}, part |-> {}, wasFresh |-> FALSE]

----------------------------------------------------------------------------
(* populate: the keys make is called for *)

\* the primary keys of the join of the parent tables
KeySource(T) ==
    CASE T = "AverageFrame" -> Keys(Scan, PKScan)
      [] T = "Neuron" -> Keys(Session, PKSession)
      [] T = "Segmentation" ->
            JoinKeys(AverageFrame, PKScan, SegmentationParam, PKParam)
      [] T = "Fluorescence" -> Keys(Segmentation, PKSegmentation)

\* (mutant) populate forgets to leave out the keys the table already holds
PopulateKeysAll(T) == KeySource(T)

\* the keys of the parents that have no entry yet in the table
PopulateKeys(T) == Antijoin(KeySource(T), Target(T))

----------------------------------------------------------------------------
(* The make methods: the inserts a call performs, in order *)

Insert(table, rows) == [table |-> table, rows |-> rows]

\* (mutant) a make that computes the average frame and forgets self.insert1
AverageFrameMakeNoInsert(key) == <<>>

\* AverageFrame.make of the notebook
AverageFrameMake(key) ==
    LET data_path == Fetch1(Session, key, "data_path")
        file_name == Fetch1(Scan, key, "file_name")
        im == ImRead(PathJoin(data_path, file_name))
        avg_image == MeanFrame(im)
    IN  << Insert("AverageFrame", {Extend(key, [average_frame |-> avg_image])}) >>

\* (mutant) the loop over the rows of the data file starts one row late
NeuronMakeSkipFirst(key) ==
    LET data == npy[DataFile(key)]
    IN  [i \in 1..(Len(data) - 1) |->
            Insert("Neuron", {Extend(key, [neuron_id |-> i, activity |-> data[i + 1]])})]

\* Neuron.make of the notebook: one insert1 per row of the data file
NeuronMake(key) ==
    LET data == npy[DataFile(key)]
    IN  [i \in 1..Len(data) |->
            Insert("Neuron", {Extend(key, [neuron_id |-> i - 1, activity |-> data[i]])})]

\* (mutant) Segmentation.make with the two inserts in the other order
SegmentationMakePartFirst(key) ==
    LET avg_image == Fetch1(AverageFrame, key, "average_frame")
        threshold == Fetch1(SegmentationParam, key, "threshold")
        size_cutoff == Fetch1(SegmentationParam, key, "size_cutoff")
        label_im == Segment(avg_image, threshold, size_cutoff)
        labels == RoiLabels(label_im)
        rois == {Extend(key, [roi_idx |-> labels[j], mask |-> MaskOf(label_im, labels[j])]) :
                    j \in 1..Len(labels)}
    IN  << Insert("Roi", rois),
           Insert("Segmentation", {Extend(key, [segmented_masks |-> label_im])}) >>

\* Segmentation.make
SegmentationMake(key) ==
    LET avg_image == Fetch1(AverageFrame, key, "average_frame")
        threshold == Fetch1(SegmentationParam, key, "threshold")
        size_cutoff == Fetch1(SegmentationParam, key, "size_cutoff")
        label_im == Segment(avg_image, threshold, size_cutoff)
        labels == RoiLabels(label_im)
        rois == {Extend(key, [roi_idx |-> labels[j], mask |-> MaskOf(label_im, labels[j])]) :
                    j \in 1..Len(labels)}
    IN  << Insert("Segmentation", {Extend(key, [segmented_masks |-> label_im])}),
           Insert("Roi", rois) >>

\* Fluorescence.make
FluorescenceMake(key) ==
    LET data_path == Fetch1(Session, key, "data_path")
        file_name == Fetch1(Scan, key, "file_name")
        im == ImRead(PathJoin(data_path, file_name))
        n == Len(im.frames)
        fps == Fetch1(Scan, key, "fps")
        traces == {Extend(Proj(r, PKRoi), [trace |-> TraceOf(im, r.mask)]) :
                     r \in Restrict(Roi, key)}
    IN  << Insert("Fluorescence", {Extend(key, [time |-> TimeOf(n, fps)])}),
           Insert("Trace", traces) >>

\* (mutant) the inherited make returns without doing anything
RaisesNever(T) == FALSE

\* AutoPopulate.make, which a class without make inherits, raises NotImplementedError
Raises(T) == ClassOf(T) = "nomake"

\* the make of the class definition in force; "print" only prints the key
Make(T, key) ==
    CASE ClassOf(T) \in {"nomake", "print"} -> <<>>
      [] T = "AverageFrame" /\ ClassOf(T) = "import" -> AverageFrameMake(key)
      [] T = "Neuron" /\ ClassOf(T) = "import" -> NeuronMake(key)
      [] T = "Segmentation" -> SegmentationMake(key)
      [] T = "Fluorescence" -> FluorescenceMake(key)

----------------------------------------------------------------------------
(* The initial state: the notebooks' kernel has imported the pipeline *)

Init ==
    /\ notebook \in {"imaging", "ephys"}
    /\ Session = InitialSessions
    /\ npy = [f \in {DataFile(r) : r \in InitialSessions} |->
                Recording(CHOOSE r \in InitialSessions : DataFile(r) = f, 1)]
    /\ Scan = {}
    /\ avgClass = "nomake"
    /\ AverageFrame = {}
    /\ nrnClass = "nomake"
    /\ Neuron = {}
    /\ SegmentationParam = {}
    /\ Segmentation = {}
    /\ Roi = {}
    /\ Fluorescence = {}
    /\ Trace = {}
    /\ pc = "idle"
    /\ popTable = "none"
    /\ todo = {}
    /\ keysAtStart = {}
    /\ calls = <<>>
    /\ before = NoSnapshot
    /\ frame = NoFrame
    /\ fresh = {}

----------------------------------------------------------------------------
(* Manual and Lookup tables: insert1 and delete, one notebook cell each *)

\* the tables whose populate has to be looked at again after a change to X
Stale(X) == Children(X)

\* (mutant) the restriction is lost: the delete empties the whole table
CascadeUnrestricted(T, key) == {}

\* delete() cascades to every dependent row
Cascade(T, key) == {r \in T : ~Matches(r, key)}

\* the cell of a delete is over: its output shows what was deleted; the
\* dependent tables as they were before the delete are kept for comparison
DeleteCell(T, key) ==
    /\ pc' = "deleted"
    /\ popTable' = T
    /\ frame' = [key |-> key, inserts |-> <<>>]
    /\ before' = [master |-> Segmentation, part |-> Roi, wasFresh |-> FALSE]
    /\ UNCHANGED <<todo, keysAtStart, calls>>

\* Scan.insert1(row)
ScanInsert(row) ==
    /\ pc = "idle" /\ notebook = "imaging"
    /\ Cardinality(Scan) < MaxScans
    /\ Restrict(Scan, Proj(row, PKScan)) = {}
    /\ Restrict(Session, Proj(row, PKSession)) # {}
    /\ Scan' = Scan \cup {row}
    /\ fresh' = fresh \ Stale("Scan")
    /\ UNCHANGED <<notebook, Session, npy, AverageFrame, Neuron, SegmentationParam,
                   Segmentation, Roi, Fluorescence, Trace, classes, popVars>>

\* (mutant) the delete removes the Scan rows and leaves the dependent rows
ScanDeleteNoCascade(row) ==
    /\ pc = "idle" /\ notebook = "imaging"
    /\ row \in Scan
    /\ Scan' = Cascade(Scan, Proj(row, PKScan))
    /\ fresh' = fresh \ Stale("Scan")
    /\ DeleteCell("Scan", Proj(row, PKScan))
    /\ UNCHANGED <<notebook, Session, npy, AverageFrame, Neuron, SegmentationParam,
                   Segmentation, Roi, Fluorescence, Trace, classes>>

\* (Scan & key).delete()
ScanDelete(row) ==
    /\ pc = "idle" /\ notebook = "imaging"
    /\ row \in Scan
    /\ LET key == Proj(row, PKScan)
       IN  /\ Scan' = Cascade(Scan, key)
           /\ AverageFrame' = Cascade(AverageFrame, key)
           /\ Segmentation' = Cascade(Segmentation, key)
           /\ Roi' = Cascade(Roi, key)
           /\ Fluorescence' = Cascade(Fluorescence, key)
           /\ Trace' = Cascade(Trace, key)
    /\ fresh' = fresh \ (Stale("Scan") \cup Stale("AverageFrame") \cup Stale("Segmentation"))
    /\ DeleteCell("Scan", Proj(row, PKScan))
    /\ UNCHANGED <<notebook, Session, npy, Neuron, SegmentationParam, classes>>

\* SegmentationParam.insert1(row)
ParamInsert(row) ==
    /\ pc = "idle" /\ notebook = "imaging"
    /\ Restrict(SegmentationParam, Proj(row, PKParam)) = {}
    /\ SegmentationParam' = SegmentationParam \cup {row}
    /\ fresh' = fresh \ Stale("SegmentationParam")
    /\ UNCHANGED <<notebook, Session, npy, Scan, AverageFrame, Neuron,
                   Segmentation, Roi, Fluorescence, Trace, classes, popVars>>

\* (mutant) the delete removes the parameter set and leaves the dependent rows
ParamDeleteNoCascade(id) ==
    /\ pc = "idle" /\ notebook = "imaging"
    /\ Restrict(SegmentationParam, [seg_param_id |-> id]) # {}
    /\ SegmentationParam' = Cascade(SegmentationParam, [seg_param_id |-> id])
    /\ fresh' = fresh \ Stale("SegmentationParam")
    /\ DeleteCell("SegmentationParam", [seg_param_id |-> id])
    /\ UNCHANGED <<notebook, Session, npy, Scan, AverageFrame, Neuron,
                   Segmentation, Roi, Fluorescence, Trace, classes>>

\* (SegmentationParam() & 'seg_param_id = id').delete()
ParamDelete(id) ==
    /\ pc = "idle" /\ notebook = "imaging"
    /\ LET key == [seg_param_id |-> id]
       IN  /\ Restrict(SegmentationParam, key) # {}
           /\ SegmentationParam' = Cascade(SegmentationParam, key)
           /\ Segmentation' = Cascade(Segmentation, key)
           /\ Roi' = Cascade(Roi, key)
           /\ Fluorescence' = Cascade(Fluorescence, key)
           /\ Trace' = Cascade(Trace, key)
    /\ fresh' = fresh \ (Stale("SegmentationParam") \cup Stale("Segmentation"))
    /\ DeleteCell("SegmentationParam", [seg_param_id |-> id])
    /\ UNCHANGED <<notebook, Session, npy, Scan, AverageFrame, Neuron, classes>>

\* (Segmentation & 'seg_param_id = id').delete(), answering the prompt
SegmentationDelete(id, answer) ==
    /\ pc = "idle" /\ notebook = "imaging"
    /\ LET key == [seg_param_id |-> id]
       IN  /\ Restrict(Segmentation, key) # {}
           /\ IF answer = "yes"
              THEN /\ Segmentation' = Cascade(Segmentation, key)
                   /\ Roi' = Cascade(Roi, key)
                   /\ Fluorescence' = Cascade(Fluorescence, key)
                   /\ Trace' = Cascade(Trace, key)
                   /\ fresh' = fresh \ Stale("Segmentation")
              ELSE UNCHANGED <<Segmentation, Roi, Fluorescence, Trace, fresh>>
    /\ DeleteCell("Segmentation", [seg_param_id |-> id])
    /\ UNCHANGED <<notebook, Session, npy, Scan, AverageFrame, Neuron,
                   SegmentationParam, classes>>

\* Session.insert1(row); the recording of the session is on disk, with n neurons
SessionInsert(row, n) ==
    /\ pc = "idle" /\ notebook = "ephys"
    /\ Cardinality(Session) < MaxSessions
    /\ Restrict(Session, Proj(row, PKSession)) = {}
    /\ Session' = Session \cup {row}
    /\ npy' = [f \in DOMAIN npy \cup {DataFile(row)} |->
                 IF f = DataFile(row) THEN Recording(row, n) ELSE npy[f]]
    /\ fresh' = fresh \ Stale("Session")
    /\ UNCHANGED <<notebook, Scan, AverageFrame, Neuron, SegmentationParam,
                   Segmentation, Roi, Fluorescence, Trace, classes, popVars>>

\* running the next cell that defines the class again (@schema class ...)
Redefine(T) ==
    /\ pc = "idle"
    /\ \/ /\ T = "AverageFrame" /\ notebook = "imaging"
          /\ \E i \in 1..2 : avgClass = ClassVersions[i] /\ avgClass' = ClassVersions[i + 1]
          /\ UNCHANGED nrnClass
       \/ /\ T = "Neuron" /\ notebook = "ephys"
          /\ \E i \in 1..2 : nrnClass = ClassVersions[i] /\ nrnClass' = ClassVersions[i + 1]
          /\ UNCHANGED avgClass
    /\ fresh' = fresh \ {T}
    /\ UNCHANGED <<notebook, tables, popVars>>

----------------------------------------------------------------------------
(* populate() *)

\* T.populate() is called: the missing keys are looked up
PopulateCall(T) ==
    /\ pc = "idle"
    /\ T \in (IF notebook = "imaging" THEN ImagingTables ELSE EphysTables)
    /\ pc' = "populate"
    /\ popTable' = T
    /\ keysAtStart' = PopulateKeys(T)
    /\ todo' = PopulateKeys(T)
    /\ calls' = <<>>
    /\ before' = [master |-> Target(T), part |-> PartOf(T), wasFresh |-> T \in fresh]
    /\ frame' = NoFrame
    /\ UNCHANGED <<notebook, tables, classes, fresh>>

\* populate calls make(key) for one of the keys left; a class without make
\* raises NotImplementedError
MakeCall(key) ==
    /\ pc = "populate"
    /\ key \in todo
    /\ calls' = Append(calls, key)
    /\ todo' = todo \ {key}
    /\ IF Raises(popTable)
       THEN pc' = "raised" /\ frame' = NoFrame
       ELSE pc' = "make" /\ frame' = [key |-> key, inserts |-> Make(popTable, key)]
    /\ UNCHANGED <<notebook, tables, classes, popTable, keysAtStart, before, fresh>>

\* (mutant) the insert replaces the contents of the table by the new rows
InsertRowsReplace(table, rows) ==
    /\ AverageFrame' = IF table = "AverageFrame" THEN rows ELSE AverageFrame
    /\ Neuron' = IF table = "Neuron" THEN rows ELSE Neuron
    /\ Segmentation' = IF table = "Segmentation" THEN rows ELSE Segmentation
    /\ Roi' = IF table = "Roi" THEN rows ELSE Roi
    /\ Fluorescence' = IF table = "Fluorescence" THEN rows ELSE Fluorescence
    /\ Trace' = IF table = "Trace" THEN rows ELSE Trace

\* table.insert(rows)
InsertRows(table, rows) ==
    /\ AverageFrame' = IF table = "AverageFrame" THEN AverageFrame \cup rows ELSE AverageFrame
    /\ Neuron' = IF table = "Neuron" THEN Neuron \cup rows ELSE Neuron
    /\ Segmentation' = IF table = "Segmentation" THEN Segmentation \cup rows ELSE Segmentation
    /\ Roi' = IF table = "Roi" THEN Roi \cup rows ELSE Roi
    /\ Fluorescence' = IF table = "Fluorescence" THEN Fluorescence \cup rows ELSE Fluorescence
    /\ Trace' = IF table = "Trace" THEN Trace \cup rows ELSE Trace

\* the running make performs its next insert
MakeInsert ==
    /\ pc = "make"
    /\ frame.inserts # <<>>
    /\ InsertRows(Head(frame.inserts).table, Head(frame.inserts).rows)
    /\ frame' = [frame EXCEPT !.inserts = Tail(@)]
    /\ UNCHANGED <<notebook, Session, npy, Scan, SegmentationParam, classes,
                   pc, popTable, todo, keysAtStart, calls, before, fresh>>

\* (mutant) make hands its inserts to the background and returns at once
MakeReturnEarly ==
    /\ pc = "make"
    /\ pc' = "populate"
    /\ frame' = NoFrame
    /\ UNCHANGED <<notebook, tables, classes, popTable, todo, keysAtStart, calls,
                   before, fresh>>

\* the running make returns to populate
MakeReturn ==
    /\ pc = "make"
    /\ frame.inserts = <<>>
    /\ pc' = "populate"
    /\ frame' = NoFrame
    /\ UNCHANGED <<notebook, tables, classes, popTable, todo, keysAtStart, calls,
                   before, fresh>>

\* no key is left: populate returns
PopulateReturn ==
    /\ pc = "populate"
    /\ todo = {}
    /\ pc' = "returned"
    /\ fresh' = (fresh \cup {popTable}) \
                  (IF Target(popTable) # before.master THEN Stale(popTable) ELSE {})
    /\ UNCHANGED <<notebook, tables, classes, popTable, todo, keysAtStart, calls,
                   before, frame>>

\* the cell is over (populate returned or raised, or a delete is done): the
\* kernel is idle again
CellDone ==
    /\ pc \in {"returned", "raised", "deleted"}
    /\ pc' = "idle"
    /\ popTable' = "none"
    /\ todo' = {}
    /\ keysAtStart' = {}
    /\ calls' = <<>>
    /\ before' = NoSnapshot
    /\ frame' = NoFrame
    /\ UNCHANGED <<notebook, tables, classes, fresh>>

----------------------------------------------------------------------------

Next ==
    \/ \E row \in ScanRows : ScanInsert(row)
    \/ \E row \in ScanRows : ScanDelete(row)
    \/ \E row \in ParamRows : ParamInsert(row)
    \/ \E row \in ParamRows : ParamDelete(row.seg_param_id)
    \/ \E row \in ParamRows, answer \in {"yes", "no"} :
          SegmentationDelete(row.seg_param_id, answer)
    \/ \E row \in SessionRows, n \in 0..MaxNeurons : SessionInsert(row, n)
    \/ \E T \in AutoPopulated : Redefine(T)
    \/ \E T \in AutoPopulated : PopulateCall(T)
    \/ \E key \in todo : MakeCall(key)
    \/ MakeInsert
    \/ MakeReturn
    \/ PopulateReturn
    \/ CellDone

Spec == Init /\ [][Next]_vars

----------------------------------------------------------------------------
(* Properties *)

\* the primary keys of the parent table(s) of T, written out attribute by attribute
ParentKeysOf(T) ==
    CASE T = "AverageFrame" ->
            {[mouse_id |-> r.mouse_id, session_date |-> r.session_date,
              scan_idx |-> r.scan_idx] : r \in Scan}
      [] T = "Neuron" ->
            {[mouse_id |-> r.mouse_id, session_date |-> r.session_date] : r \in Session}
      [] T = "Segmentation" ->
            {[mouse_id |-> a.mouse_id, session_date |-> a.session_date,
              scan_idx |-> a.scan_idx, seg_param_id |-> p.seg_param_id] :
                a \in AverageFrame, p \in SegmentationParam}
      [] T = "Fluorescence" ->
            {[mouse_id |-> r.mouse_id, session_date |-> r.session_date,
              scan_idx |-> r.scan_idx, seg_param_id |-> r.seg_param_id] :
                r \in Segmentation}
      [] OTHER -> {}

\* the rows of a table that carry the key k
EntriesOf(rows, k) == {r \in rows : \A a \in DOMAIN k : r[a] = k[a]}

\* the parent keys that had no entry in the table when populate() was called
MissingAtCall == {k \in ParentKeysOf(popTable) : EntriesOf(before.master, k) = {}}

CalledKeys == {calls[i] : i \in 1..Len(calls)}
NoKeyCalledTwice == \A i, j \in 1..Len(calls) : calls[i] = calls[j] => i = j

\* C1: one populate() call (that returns, i.e. on a class with a make method)
\* calls make exactly once for every primary key of the parent table(s) that
\* had no entry yet in the populated table, and for no other key: while it
\* runs, no key is called twice and only missing keys are called; when it
\* has returned, every missing key has been called.
C1_PopulateCallsMakeOncePerMissingKey ==
    /\ pc \in {"populate", "make", "returned"} =>
          NoKeyCalledTwice /\ CalledKeys \subseteq MissingAtCall
    /\ pc = "returned" => CalledKeys = MissingAtCall

\* witness of C1: a Segmentation.populate() has returned that found entries of
\* earlier populates and called make for two or more missing keys
C1_Witness ==
    /\ pc = "returned" /\ popTable = "Segmentation"
    /\ before.master # {}
    /\ Len(calls) >= 2

\* C2: once AverageFrame.populate() has completed with the implemented make,
\* a second AverageFrame.populate() with no change to Scan in between calls
\* make for no key and leaves AverageFrame unchanged.
C2_SecondPopulateDoesNothing ==
    (popTable = "AverageFrame" /\ before.wasFresh /\ avgClass = "import") =>
        /\ pc # "make"
        /\ calls = <<>>
        /\ AverageFrame = before.master

\* witness of C2: such a second populate has returned, on a filled table
C2_Witness ==
    /\ pc = "returned" /\ popTable = "AverageFrame"
    /\ before.wasFresh /\ avgClass = "import"
    /\ Cardinality(AverageFrame) >= 2

\* the number of rows (neurons) of the data file of a session
RowsOfFile(k) == Len(npy[DataFile(k)])

\* C3 as stated: once Neuron.populate() has completed, a second
\* Neuron.populate() with no change to Session in between calls make for no
\* session and leaves Neuron unchanged, whatever number of rows each session's
\* data file holds.
C3_Original ==
    (popTable = "Neuron" /\ before.wasFresh /\ nrnClass = "import") =>
        /\ pc # "make"
        /\ calls = <<>>
        /\ Neuron = before.master

\* C3 as amended: such a second Neuron.populate() leaves Neuron unchanged and
\* calls make for no session whose data file holds one or more rows; the
\* sessions it calls make for again are those whose data file holds no row.
C3_SecondPopulateSkipsImportedSessions ==
    (popTable = "Neuron" /\ before.wasFresh /\ nrnClass = "import") =>
        /\ Neuron = before.master
        /\ \A k \in CalledKeys : RowsOfFile(k) = 0
        /\ pc = "returned" =>
              CalledKeys = {k \in ParentKeysOf("Neuron") : RowsOfFile(k) = 0}

\* witness of C3: the second populate has returned without a make call, with
\* a session of two or more neurons imported
C3_Witness ==
    /\ pc = "returned" /\ popTable = "Neuron"
    /\ before.wasFresh /\ nrnClass = "import"
    /\ calls = <<>>
    /\ \E k \in ParentKeysOf("Neuron") :
          RowsOfFile(k) >= 2 /\ Cardinality(EntriesOf(Neuron, k)) = RowsOfFile(k)

\* the populate() calls C4 is about: on AverageFrame or Neuron, with the
\* implemented make, on a table that held entries, with a parent entry
\* inserted since
AfterParentInsert ==
    /\ pc = "returned" /\ popTable \in {"AverageFrame", "Neuron"}
    /\ ClassOf(popTable) = "import"
    /\ before.master # {}

\* C4 as stated: after a new entry is inserted in the parent table of an
\* already populated table, the next populate() calls make for exactly the
\* entries of Parent - Child, adds the child entry for them, and leaves every
\* child entry that existed before unchanged.
C4_Original ==
    AfterParentInsert =>
        /\ CalledKeys = MissingAtCall
        /\ \A k \in CalledKeys : EntriesOf(Target(popTable), k) # {}
        /\ before.master \subseteq Target(popTable)
        /\ \A r \in Target(popTable) \ before.master :
              \E k \in CalledKeys : r \in EntriesOf(Target(popTable), k)

\* the number of entries the implemented make inserts for a key
EntriesMade(T, k) == IF T = "Neuron" THEN RowsOfFile(k) ELSE 1

\* C4 as amended: ... the next populate() calls make for exactly the entries
\* of Parent - Child, adds the child entries of each of them (one
\* AverageFrame entry for a scan, one Neuron entry for every row of the
\* session's data file, so none when the file holds no row), and leaves every
\* child entry that existed before unchanged.
C4_PopulateAddsOnlyMissing ==
    AfterParentInsert =>
        /\ CalledKeys = MissingAtCall
        /\ \A k \in CalledKeys :
              Cardinality(EntriesOf(Target(popTable), k)) = EntriesMade(popTable, k)
        /\ before.master \subseteq Target(popTable)
        /\ \A r \in Target(popTable) \ before.master :
              \E k \in CalledKeys : r \in EntriesOf(Target(popTable), k)

\* witness of C4: a populate on a table with entries has returned after
\* calling make for a new parent entry and adding its child entry
C4_Witness ==
    /\ AfterParentInsert
    /\ calls # <<>>
    /\ Target(popTable) # before.master

C6_MakeKeyIsPrimaryKey ==
    \A i \in 1..Len(calls) :
        /\ popTable = "AverageFrame" =>
              /\ DOMAIN calls[i] = {"mouse_id", "session_date", "scan_idx"}
              /\ \E r \in Scan : \A a \in DOMAIN calls[i] : r[a] = calls[i][a]
        /\ popTable = "Neuron" =>
              /\ DOMAIN calls[i] = {"mouse_id", "session_date"}
              /\ \E r \in Session : \A a \in DOMAIN calls[i] : r[a] = calls[i][a]

\* witness of C6: make is running on a key of a Scan entry, which has
\* attributes besides its primary key
C6_Witness ==
    /\ pc = "make" /\ popTable = "AverageFrame"
    /\ \E r \in Scan : /\ calls[Len(calls)] = Proj(r, PKScan)
                       /\ DOMAIN r # PKScan

\* C7: Scan and AverageFrame are one-to-one: in every state reachable by
\* inserts into Scan, AverageFrame.populate() and deletes, each AverageFrame
\* entry has the primary key of an existing Scan entry and no Scan entry has
\* more than one AverageFrame entry.
C7_ScanAverageFrameOneToOne ==
    /\ \A a \in AverageFrame :
          \E r \in Scan : /\ r.mouse_id = a.mouse_id
                          /\ r.session_date = a.session_date
                          /\ r.scan_idx = a.scan_idx
    /\ \A r \in Scan :
          Cardinality({a \in AverageFrame : /\ a.mouse_id = r.mouse_id
                                            /\ a.session_date = r.session_date
                                            /\ a.scan_idx = r.scan_idx}) <= 1

\* witness of C7: after inserts, a populate and a delete or a later insert,
\* one Scan entry has its AverageFrame entry and another has none
C7_Witness ==
    /\ pc = "idle" /\ avgClass = "import"
    /\ Cardinality(AverageFrame) = 1
    /\ Cardinality(Scan) = 2
    /\ "AverageFrame" \notin fresh

\* the pairs of an AverageFrame key and a SegmentationParam key
AllCombinations ==
    {[mouse_id |-> a.mouse_id, session_date |-> a.session_date,
      scan_idx |-> a.scan_idx, seg_param_id |-> p.seg_param_id] :
        a \in AverageFrame, p \in SegmentationParam}

\* the primary keys of the Segmentation entries
SegmentationKeys ==
    {[mouse_id |-> r.mouse_id, session_date |-> r.session_date,
      scan_idx |-> r.scan_idx, seg_param_id |-> r.seg_param_id] : r \in Segmentation}

\* C8: Segmentation.populate() calls make on every valid combination of the
\* parent tables: after it completes, the set of Segmentation primary keys
\* equals the set of all pairs of an AverageFrame key and a SegmentationParam
\* key.
C8_SegmentationCoversAllCombinations ==
    (pc = "returned" /\ popTable = "Segmentation") =>
        SegmentationKeys = AllCombinations

\* witness of C8: Segmentation.populate() has returned with two average
\* frames and two parameter sets, after calling make
C8_Witness ==
    /\ pc = "returned" /\ popTable = "Segmentation"
    /\ Cardinality(AverageFrame) = 2
    /\ Cardinality(SegmentationParam) = 2
    /\ calls # <<>>
    /\ Cardinality(Segmentation) = 4

\* C9: while SegmentationParam is empty, Segmentation.populate() does nothing
\* (no make call, Segmentation and Segmentation.Roi stay empty) however many
\* AverageFrame entries exist; after a parameter set is inserted, the next
\* Segmentation.populate() computes the entries (one for every average frame
\* and parameter set).
C9_NoParamNoSegmentation ==
    /\ (popTable = "Segmentation" /\ SegmentationParam = {}) =>
          /\ pc # "make"
          /\ calls = <<>>
          /\ Segmentation = {} /\ Roi = {}
    /\ (pc = "returned" /\ popTable = "Segmentation" /\ SegmentationParam # {}) =>
          \A a \in AverageFrame, p \in SegmentationParam :
              \E r \in Segmentation : Matches(r, Proj(a, PKScan)) /\ Matches(r, Proj(p, PKParam))

\* witness of C9: Segmentation.populate() has returned with two average
\* frames and no parameter set
C9_Witness ==
    /\ pc = "returned" /\ popTable = "Segmentation"
    /\ SegmentationParam = {}
    /\ Cardinality(AverageFrame) = 2

\* the master entry of a part row exists
HasMaster(master, part_row) ==
    \E m \in master : \A a \in PKSegmentation : m[a] = part_row[a]

\* C10: a make of a master/part pair inserts into the master table first and
\* then into the part table: in every state, including the state between the
\* two inserts of Segmentation.make and of Fluorescence.make, each
\* Segmentation.Roi entry has a Segmentation master entry and each
\* Fluorescence.Trace entry has a Fluorescence master entry; and whenever the
\* running make is about to insert into the part table, the master entry of
\* its key is there.
C10_MasterBeforePart ==
    /\ \A r \in Roi : HasMaster(Segmentation, r)
    /\ \A t \in Trace : HasMaster(Fluorescence, t)
    /\ (pc = "make" /\ frame.inserts # <<>>) =>
          /\ Head(frame.inserts).table = "Roi" => EntriesOf(Segmentation, frame.key) # {}
          /\ Head(frame.inserts).table = "Trace" => EntriesOf(Fluorescence, frame.key) # {}
          /\ Head(frame.inserts).table \in {"Segmentation", "Fluorescence"} =>
                EntriesOf(PartOf(popTable), frame.key) = {}

\* witness of C10: Fluorescence.make is between its two inserts, the master
\* entry is in and the traces of its ROIs are still to be inserted
C10_Witness ==
    /\ pc = "make" /\ popTable = "Fluorescence"
    /\ Len(frame.inserts) = 1
    /\ Head(frame.inserts).table = "Trace"
    /\ Head(frame.inserts).rows # {}
    /\ EntriesOf(Fluorescence, frame.key) # {}
    /\ EntriesOf(Trace, frame.key) = {}

----------------------------------------------------------------------------
(* C11: deleting a parameter set (SegmentationParam & 'seg_param_id = 0' in the
   notebook) cascades: when the delete is done, no SegmentationParam,
   Segmentation or Roi entry with the deleted seg_param_id remains, and the
   Segmentation and Roi entries of every other seg_param_id are exactly the
   ones that were there before the delete. *)

\* the rows of a table that belong to another parameter set than id
OtherParam(rows, id) == {r \in rows : r.seg_param_id # id}

C11_ParamDeleteCascades ==
    (pc = "deleted" /\ popTable = "SegmentationParam") =>
        LET id == frame.key.seg_param_id
        IN  /\ \A r \in SegmentationParam : r.seg_param_id # id
            /\ \A r \in Segmentation : r.seg_param_id # id
            /\ \A r \in Roi : r.seg_param_id # id
            /\ OtherParam(Segmentation, id) = OtherParam(before.master, id)
            /\ OtherParam(Roi, id) = OtherParam(before.part, id)

\* parameter set 0 has just been deleted while Segmentation and Roi held
\* entries of parameter set 0 and of parameter set 1
C11_Witness ==
    /\ pc = "deleted" /\ popTable = "SegmentationParam"
    /\ frame.key.seg_param_id = 0
    /\ \E r \in before.master : r.seg_param_id = 0
    /\ \E r \in before.part : r.seg_param_id = 0
    /\ \E r \in Segmentation : r.seg_param_id = 1
    /\ \E r \in Roi : r.seg_param_id = 1

----------------------------------------------------------------------------
(* C12: results of different parameter sets live next to each other. When
   Segmentation.populate() has returned, every Segmentation and Roi entry
   that was there at the call is still there, and no entry was added for a
   parameter set that was already computed at the call (one with an entry for
   every average frame): with a further SegmentationParam entry inserted
   since, the entries added are those of the new seg_param_id only. *)

\* the parameter sets whose segmentations were all there when populate was called
ComputedAtCall ==
    {p.seg_param_id : p \in
        {q \in SegmentationParam :
            /\ \E r \in before.master : r.seg_param_id = q.seg_param_id
            /\ \A a \in AverageFrame :
                  \E r \in before.master :
                      Matches(r, Extend(Proj(a, PKScan), Proj(q, PKParam)))}}

C12_NewParamLeavesEarlierResults ==
    (pc = "returned" /\ popTable = "Segmentation") =>
        /\ before.master \subseteq Segmentation
        /\ before.part \subseteq Roi
        /\ \A r \in Segmentation \ before.master : r.seg_param_id \notin ComputedAtCall
        /\ \A r \in Roi \ before.part : r.seg_param_id \notin ComputedAtCall

\* parameter set 0 was computed, parameter set 1 was inserted, and populate
\* has added Segmentation and Roi entries of parameter set 1
C12_Witness ==
    /\ pc = "returned" /\ popTable = "Segmentation"
    /\ ComputedAtCall = {0}
    /\ \E r \in before.part : r.seg_param_id = 0
    /\ \E r \in Segmentation \ before.master : r.seg_param_id = 1
    /\ \E r \in Roi \ before.part : r.seg_param_id = 1

----------------------------------------------------------------------------
(* C13: the data file of a session is named from its primary key,
   data_{mouse_id}_{session_date}.npy under data_dir. The file of that name
   holds the recording of the session, two sessions with different
   (mouse_id, session_date) have different file names, and every Neuron entry
   carries the activity that the file of its own session holds for its
   neuron_id: Neuron.make has read exactly that file. *)

\* the mouse ids of the model as they are written in a file name
MouseStr(m) == CASE m = 0 -> "0" [] m = 100 -> "100"

\* the name the convention gives to the file of a session
ConventionName(k) ==
    "data/data_" \o MouseStr(k.mouse_id) \o "_" \o k.session_date \o ".npy"

\* the activity of one neuron as the recording of session k has it
ActivityOf(k, idx) ==
    [mouse_id |-> k.mouse_id, session_date |-> k.session_date, neuron |-> idx]

C13_DataFileNamedFromKey ==
    /\ \A s \in Session : DataFile(Proj(s, PKSession)) = ConventionName(s)
    /\ \A s1, s2 \in Session :
          Proj(s1, PKSession) # Proj(s2, PKSession) =>
              DataFile(Proj(s1, PKSession)) # DataFile(Proj(s2, PKSession))
    /\ \A s \in Session :
          /\ ConventionName(s) \in DOMAIN npy
          /\ \A i \in DOMAIN npy[ConventionName(s)] :
                npy[ConventionName(s)][i] = ActivityOf(s, i - 1)
    /\ \A r \in Neuron :
          /\ r.neuron_id + 1 \in DOMAIN npy[ConventionName(r)]
          /\ r.activity = npy[ConventionName(r)][r.neuron_id + 1]
          /\ r.activity = ActivityOf(r, r.neuron_id)

\* Neuron holds entries of two sessions of the same date and different mice,
\* and of two sessions of the same mouse and different dates
C13_Witness ==
    /\ \E r1, r2 \in Neuron :
          r1.session_date = r2.session_date /\ r1.mouse_id # r2.mouse_id
    /\ \E r1, r2 \in Neuron :
          r1.session_date # r2.session_date /\ r1.mouse_id = r2.mouse_id

----------------------------------------------------------------------------
(* C14: execution is synchronous and single-threaded. During a populate at
   most one make call is in progress: it is the call for the key populate
   called last, and outside of it no insert is pending. A make call has
   finished, all its inserts done, before the make call for the next key
   starts: every key called before the last one has all the rows of its make
   in the tables. *)

TableNamed(name) ==
    CASE name = "AverageFrame" -> AverageFrame
      [] name = "Neuron" -> Neuron
      [] name = "Segmentation" -> Segmentation
      [] name = "Roi" -> Roi
      [] name = "Fluorescence" -> Fluorescence
      [] name = "Trace" -> Trace

\* every insert of make(k) of table T is in the tables
InsertsDone(T, k) ==
    \A j \in 1..Len(Make(T, k)) :
        Make(T, k)[j].rows \subseteq TableNamed(Make(T, k)[j].table)

\* the calls of the running populate that came before the call in progress
CallsOver == IF pc = "make" THEN 1..(Len(calls) - 1) ELSE 1..Len(calls)

C14_OneMakeAtATime ==
    /\ pc = "make" => (calls # <<>> /\ frame.key = calls[Len(calls)])
    /\ pc # "make" => frame.inserts = <<>>
    /\ pc \in {"populate", "make", "returned"} =>
          \A i \in CallsOver : InsertsDone(popTable, calls[i])

\* the make of a second key is in the middle of its inserts, after the make of
\* the first key has inserted its rows
C14_Witness ==
    /\ pc = "make"
    /\ Len(calls) >= 2
    /\ frame.inserts # <<>>
    /\ Len(frame.inserts) < Len(Make(popTable, frame.key))
    /\ Make(popTable, calls[1]) # <<>>
    /\ InsertsDone(popTable, calls[1])

====
